---- MODULE Spec2Model ----
(***************************************************************************)
(* Core runtime dispatch kernels (core_runtime/kernels.cc): ExecuteOp,     *)
(* ExecuteOpSeq and ExecuteCoreRuntimeOp driving ExecuteOpImpl over        *)
(* AsyncValues, with two dispatches that either share the incoming chain   *)
(* A or are sequenced A -> B -> C.                                         *)
(* SpecAttrs gives the same kernels an attribute record with a tag the    *)
(* attribute loop has no case for; SpecShape runs TensorHandleToShape.     *)
(* SpecVerify runs verify(EnumerateIteratorOp) (data/opdefs/data_ops.cc).  *)
(***************************************************************************)
EXTENDS Integers, Sequences, FiniteSets, TLC

\* Number of tensor arguments and of declared results of a dispatch.
NumArgs == 2
NumResults == 2
\* Number of TensorHandles given to TensorHandleToShape.
NumHandles == 3
\* Largest number of results of an EnumerateIteratorOp and of its function;
\* the function has up to MaxTypes + 1 inputs.
MaxTypes == 2

\* The two dispatches D1 and D2 (D1 is issued first).
Disp == {1, 2}
\* The TensorHandle payload argument i resolves to: 3, 4, ...
ArgVal(i) == i + 2
\* OpHandler* values the handler future may resolve to.
HandlerVals == {1, 2}
\* Operation names given to the kernels.
OpNames == {"add", "bogus"}

(***************************************************************************)
(* AsyncValue states.  v is the payload of a concrete value, e the error   *)
(* of an errored one; every state carries both fields.                     *)
(***************************************************************************)
NoErr == [src |-> "", idx |-> 0]
Err(src, idx) == [src |-> src, idx |-> idx]

Unconstructed == [st |-> "Unconstructed", v |-> 0, e |-> NoErr]
Unresolved == [st |-> "Unresolved", v |-> 0, e |-> NoErr]
Concrete(v) == [st |-> "Concrete", v |-> v, e |-> NoErr]
ErrorState(e) == [st |-> "Error", v |-> 0, e |-> e]

IsConcrete(f) == f.st = "Concrete"
IsError(f) == f.st = "Error"
IsAvailable(f) == f.st \in {"Concrete", "Error"}

(***************************************************************************)
(* Serialized attribute records: a sequence of (key, type tag) pairs.  A   *)
(* tag is a category and, for arrays and scalar data, a data type.         *)
(***************************************************************************)
Tag(cat, dt) == [cat |-> cat, dt |-> dt]

\* A record with one attribute of every tag the loop has a case for.
FullRecord ==
    << [key |-> "k1", tag |-> Tag("data", "string")],
       [key |-> "k2", tag |-> Tag("array", "i32")],
       [key |-> "k3", tag |-> Tag("dense", "")],
       [key |-> "k4", tag |-> Tag("data", "bool")],
       [key |-> "k5", tag |-> Tag("shape", "")],
       [key |-> "k6", tag |-> Tag("data", "i32")],
       [key |-> "k7", tag |-> Tag("type", "")],
       [key |-> "k8", tag |-> Tag("data", "i64")],
       [key |-> "k9", tag |-> Tag("aggregate", "")],
       [key |-> "k10", tag |-> Tag("data", "f32")],
       [key |-> "k11", tag |-> Tag("array", "f32")],
       [key |-> "k12", tag |-> Tag("data", "f64")] >>

\* The records of well-formed programs.
AttrRecords == { << >>, FullRecord }

\* Records with a tag the loop has no case for: a scalar data type outside
\* the switch at lines 214-235, a category outside the one at 238-252.
BadAttrRecords ==
    { << [key |-> "k1", tag |-> Tag("data", "i32")],
         [key |-> "k2", tag |-> Tag("data", "f16")],
         [key |-> "k3", tag |-> Tag("shape", "")] >>,
      << [key |-> "k1", tag |-> Tag("func", "")] >> }

\* What llvm_unreachable does: it aborts the process in a build with
\* assertions; without them it is undefined behaviour, of which falling out
\* of the switch (the attribute is skipped) is an outcome.
UnreachableOutcomes == {"abort", "fallthrough"}

\* Mutant: a string attribute goes through Set as the other scalars do.
SetAttrStringAsScalar(p) ==
    IF p.tag.cat = "array" THEN [key |-> p.key, setter |-> "SetRaw", type |-> p.tag.dt]
    ELSE IF p.tag.cat = "dense" THEN [key |-> p.key, setter |-> "Set", type |-> "dense"]
    ELSE IF p.tag.cat = "data" THEN
        IF p.tag.dt \in {"bool", "i32", "i64", "f32", "f64", "string"}
        THEN [key |-> p.key, setter |-> "Set", type |-> p.tag.dt]
        ELSE [key |-> p.key, setter |-> "unreachable", type |-> ""]
    ELSE IF p.tag.cat \in {"type", "shape", "aggregate"}
        THEN [key |-> p.key, setter |-> "Set", type |-> p.tag.cat]
        ELSE [key |-> p.key, setter |-> "unreachable", type |-> ""]

\* One iteration of the attribute loop: the OpAttrs setter the tag selects,
\* "unreachable" when the tag reaches a default case.
SetAttr(p) ==
    IF p.tag.cat = "array" THEN [key |-> p.key, setter |-> "SetRaw", type |-> p.tag.dt]
    ELSE IF p.tag.cat = "dense" THEN [key |-> p.key, setter |-> "Set", type |-> "dense"]
    ELSE IF p.tag.cat = "data" THEN
        IF p.tag.dt \in {"bool", "i32", "i64", "f32", "f64"}
        THEN [key |-> p.key, setter |-> "Set", type |-> p.tag.dt]
        ELSE IF p.tag.dt = "string"
        THEN [key |-> p.key, setter |-> "SetString", type |-> "string"]
        ELSE [key |-> p.key, setter |-> "unreachable", type |-> ""]
    ELSE IF p.tag.cat \in {"type", "shape", "aggregate"}
        THEN [key |-> p.key, setter |-> "Set", type |-> p.tag.cat]
        ELSE [key |-> p.key, setter |-> "unreachable", type |-> ""]

\* The loop from attribute i on, op_attrs holding acc: in record order; at
\* a default case it stops (abort) or goes on without an entry.
RECURSIVE MaterializeFrom(_, _, _, _)
MaterializeFrom(rec, i, acc, outcome) ==
    IF i > Len(rec) THEN [op_attrs |-> acc, completed |-> TRUE]
    ELSE IF SetAttr(rec[i]).setter # "unreachable"
        THEN MaterializeFrom(rec, i + 1, Append(acc, SetAttr(rec[i])), outcome)
    ELSE IF outcome = "abort" THEN [op_attrs |-> acc, completed |-> FALSE]
    ELSE MaterializeFrom(rec, i + 1, acc, outcome)

\* The whole loop.
Materialize(rec, outcome) == MaterializeFrom(rec, 1, << >>, outcome)

(***************************************************************************)
(* External collaborators.                                                 *)
(***************************************************************************)
\* CoreRuntime::MakeOp: succeeds iff the name is registered on the handler.
MakeOpOk(name, hv) == name = "add" /\ hv = 1
LookupErr == Err("MakeOp", 0)

RECURSIVE SumSeq(_)
SumSeq(s) == IF s = << >> THEN 0 ELSE Head(s) + SumSeq(Tail(s))

\* The TensorHandle the operation implementation produces for result slot i.
OpResult(th, i) == SumSeq(th) + (i - 1)

(***************************************************************************)
(* TensorHandleToShape: the shape of a TensorHandle whose metadata is      *)
(* available is emplaced at once; otherwise the result is an indirect      *)
(* AsyncValue forwarded when the metadata future resolves.                 *)
(***************************************************************************)
Handles == 1..NumHandles
\* TensorMetadata values, dtype * 10 + shape.
MetadataVals == {11, 12, 21}
\* TensorMetadata::shape
ShapeOf(md) == md % 10

\* A TensorHandle and the kernel's result before the kernel runs.
InitHandle ==
    [ metadata |-> Unresolved, pc |-> "init", at_call |-> Unconstructed,
      tensorshape_result |-> Unconstructed, indirect |-> FALSE,
      and_then |-> FALSE, emplaced |-> 0, forwarded |-> 0, forwarded_to |-> "none" ]

\* TensorHandle::IsMetadataAvailable
IsMetadataAvailable(t) == IsConcrete(t.metadata)

\* Mutant: the IsError test of the waiter is missing.
ShapeWaiterIgnoresError(t, m) ==
    [t EXCEPT !.tensorshape_result = Concrete(ShapeOf(m.v)),
              !.forwarded = @ + 1,
              !.forwarded_to = "fresh",
              !.and_then = FALSE, !.pc = "done"]

\* The waiter given to metadata.AndThen, run with the metadata in state m.
ShapeWaiter(t, m) ==
    IF IsError(m)
    THEN [t EXCEPT !.tensorshape_result = m,
                   !.forwarded = @ + 1,
                   !.forwarded_to = "metadata",
                   !.and_then = FALSE, !.pc = "done"]
    ELSE [t EXCEPT !.tensorshape_result = Concrete(ShapeOf(m.v)),
                   !.forwarded = @ + 1,
                   !.forwarded_to = "fresh",
                   !.and_then = FALSE, !.pc = "done"]

\* Mutant: the early return after Emplace is missing.
TensorHandleToShapeNoReturn(t) ==
    LET t0 == IF IsMetadataAvailable(t)
              THEN [t EXCEPT !.at_call = t.metadata,
                             !.tensorshape_result = Concrete(ShapeOf(t.metadata.v)),
                             !.emplaced = @ + 1]
              ELSE [t EXCEPT !.at_call = t.metadata]
        t1 == [t0 EXCEPT !.tensorshape_result = Unresolved, !.indirect = TRUE]
    IN  IF IsAvailable(t.metadata) THEN ShapeWaiter(t1, t.metadata)
        ELSE [t1 EXCEPT !.and_then = TRUE, !.pc = "waiting"]

\* The kernel body.  AndThen runs the waiter at once when the metadata is
\* already available (in error), else registers it.
TensorHandleToShapeBody(t) ==
    IF IsMetadataAvailable(t)
    THEN [t EXCEPT !.at_call = t.metadata,
                   !.tensorshape_result = Concrete(ShapeOf(t.metadata.v)),
                   !.emplaced = @ + 1,
                   !.pc = "done"]
    ELSE LET t1 == [t EXCEPT !.at_call = t.metadata,
                             !.tensorshape_result = Unresolved,
                             !.indirect = TRUE]
         IN  IF IsAvailable(t.metadata) THEN ShapeWaiter(t1, t.metadata)
             ELSE [t1 EXCEPT !.and_then = TRUE, !.pc = "waiting"]

\* The states the metadata future may resolve to.
MetadataOutcomes ==
    {Concrete(md) : md \in MetadataVals} \cup {ErrorState(Err("metadata", 0))}

\* The metadata future resolves to s and runs its waiter, if any.
MetadataResolved(t, s) ==
    IF t.and_then THEN ShapeWaiter([t EXCEPT !.metadata = s], s)
    ELSE [t EXCEPT !.metadata = s]

(***************************************************************************)
(* verify(EnumerateIteratorOp) (data/opdefs/data_ops.cc): the signature of *)
(* the function the op names must match the op's results.                  *)
(***************************************************************************)
\* mlir::Type values.
Types == {"i32", "f32"}
\* Symbol names: the module may define "f"; it never defines "g".
Symbols == {"f", "g"}

\* Sequences over S of length 0..n.
SeqsUpTo(S, n) == UNION {[1..k -> S] : k \in 0..n}

\* The FunctionTypes of the module's function and the ops to verify.
FunctionTypes ==
    [inputs : SeqsUpTo(Types, MaxTypes + 1), results : SeqsUpTo(Types, MaxTypes)]
EnumerateIteratorOps == [function : Symbols, results : SeqsUpTo(Types, MaxTypes)]

\* constexpr int kNumTypeLists
kNumTypeLists == 3

\* LogicalResult with the diagnostic emitted.  found is the pair of numbers
\* of the count diagnostics; a, b, idx are those of the type diagnostic.
Success == [ok |-> TRUE, error |-> "", found |-> <<0, 0>>, a |-> "", b |-> "", idx |-> 0]
CountError(msg, n, m) ==
    [ok |-> FALSE, error |-> msg, found |-> <<n, m>>, a |-> "", b |-> "", idx |-> 0]
TypeError(a, b, idx) ==
    [ok |-> FALSE, error |-> "incompatible type", found |-> <<0, 0>>,
     a |-> a, b |-> b, idx |-> idx]

\* ArrayRef::take_back(n): the last n elements.
TakeBack(s, n) == SubSeq(s, Len(s) - n + 1, Len(s))

\* Mutant: the first results_size inputs are taken.
TypeListsTakeFront(op, function_type) ==
    << [name |-> "op results", types |-> op.results],
       [name |-> "function results", types |-> function_type.results],
       [name |-> "final function inputs",
        types |-> SubSeq(function_type.inputs, 1, Len(op.results))] >>

\* The array type_lists.
TypeLists(op, function_type) ==
    << [name |-> "op results", types |-> op.results],
       [name |-> "function results", types |-> function_type.results],
       [name |-> "final function inputs",
        types |-> TakeBack(function_type.inputs, Len(op.results))] >>

\* The loops over i, j > i and idx, from (i, j, idx) on; idx is the C++ index.
RECURSIVE CompareTypeLists(_, _, _, _, _)
CompareTypeLists(type_lists, results_size, i, j, idx) ==
    IF i >= kNumTypeLists THEN Success
    ELSE IF j >= kNumTypeLists
        THEN CompareTypeLists(type_lists, results_size, i + 1, i + 2, 0)
    ELSE IF idx >= results_size
        THEN CompareTypeLists(type_lists, results_size, i, j + 1, 0)
    ELSE IF type_lists[i + 1].types[idx + 1] # type_lists[j + 1].types[idx + 1]
        THEN TypeError(type_lists[i + 1].name, type_lists[j + 1].name, idx)
    ELSE CompareTypeLists(type_lists, results_size, i, j, idx + 1)

\* verify(op) in a module whose symbol table is module and whose function
\* "f", when defined, has type ftype.
verify(op, module, ftype) ==
    IF op.function \notin module
    THEN [ok |-> FALSE, error |-> "undefined function", found |-> <<0, 0>>,
          a |-> op.function, b |-> "", idx |-> 0]
    ELSE LET results_size == Len(op.results)
         IN  IF Len(ftype.results) # results_size
             THEN CountError("number of function results", Len(ftype.results), results_size)
             ELSE IF Len(ftype.inputs) <= results_size
             THEN CountError("number of function inputs", Len(ftype.inputs), results_size)
             ELSE CompareTypeLists(TypeLists(op, ftype), results_size, 0, 1, 0)

\* No module is being verified.
NoVerifier ==
    [module |-> {}, ftype |-> [inputs |-> << >>, results |-> << >>],
     op |-> [function |-> "f", results |-> << >>],
     verified |-> FALSE, result |-> Success]

VARIABLES core_rt, op_attr_array, unreachable, op_handler, args, in_op_chain, disp, th,
          verifier

vars == <<core_rt, op_attr_array, unreachable, op_handler, args, in_op_chain, disp, th,
          verifier>>

\* Per-dispatch state before the kernel runs.
InitDisp ==
    [ kernel |-> "none", pc |-> "init", op_name |-> "", op_attr_array |-> << >>,
      in_chain |-> "none", branch |-> "none", async_args |-> {},
      at_dispatch |-> [h |-> Unconstructed, as |-> << >>, cin |-> Unconstructed],
      results |-> [i \in 1..NumResults |-> Unconstructed],
      out_op_chain |-> Unconstructed, op_chain |-> Unconstructed,
      out_alias |-> FALSE, and_then |-> FALSE,
      at_decide |-> [h |-> Unconstructed, as |-> << >>, cin |-> Unconstructed],
      invoked |-> 0, token_passed |-> FALSE,
      th_args |-> << >>, result_ths |-> << >>, op_attrs |-> << >>, attrs_done |-> FALSE,
      fired |-> 0, fired_in_call |-> FALSE, reported |-> "",
      result_writes |-> [i \in 1..NumResults |-> 0], out_writes |-> 0 ]

Init ==
    /\ core_rt \in BOOLEAN
    /\ op_attr_array \in AttrRecords
    /\ unreachable = "abort"
    /\ op_handler = Unresolved
    /\ args = [i \in 1..NumArgs |-> Unresolved]
    /\ in_op_chain = Unresolved
    /\ disp = [d \in Disp |-> InitDisp]
    /\ th = [h \in Handles |-> InitHandle]
    /\ verifier = NoVerifier

(***************************************************************************)
(* ExecuteOpImpl: materialize the attributes, invoke the operation with    *)
(* the TensorHandles read from the arguments, and emplace every result.    *)
(* When a chain is passed the operation replaces it by its own completion  *)
(* marker, which resolves later (OpCompletes).                             *)
(***************************************************************************)
\* for (auto *arg : args) th_args.push_back(arg->get<TensorHandle>())
ArgValues(as) == [i \in 1..NumArgs |-> as[i].v]

\* The process has died in llvm_unreachable during dispatch r.
Aborted(r) == r.pc = "aborted"

\* The attribute loop of ExecuteOpImpl, after th_args is filled.
SetUpOpAttrs(r, as) ==
    LET m == Materialize(r.op_attr_array, unreachable)
    IN  [r EXCEPT !.th_args = ArgValues(as),
                  !.op_attrs = m.op_attrs,
                  !.attrs_done = m.completed,
                  !.pc = IF m.completed THEN @ ELSE "aborted"]

\* Mutant: every result slot receives the TensorHandle of slot 0.
ExecuteOpImplFirstSlot(r, as, has_chain) ==
    LET r1 == SetUpOpAttrs(r, as)
    IN  IF Aborted(r1) THEN r1
        ELSE [r1 EXCEPT
              !.invoked = @ + 1,
              !.token_passed = has_chain,
              !.op_chain = IF has_chain THEN Unresolved ELSE @,
              !.result_ths = [i \in 1..NumResults |-> OpResult(ArgValues(as), i)],
              !.results = [i \in 1..NumResults |-> Concrete(OpResult(ArgValues(as), 1))],
              !.result_writes = [i \in 1..NumResults |-> @[i] + 1]]

ExecuteOpImpl(r, as, has_chain) ==
    LET r1 == SetUpOpAttrs(r, as)
    IN  IF Aborted(r1) THEN r1
        ELSE [r1 EXCEPT
              !.invoked = @ + 1,
              !.token_passed = has_chain,
              !.op_chain = IF has_chain THEN Unresolved ELSE @,
              !.result_ths = [i \in 1..NumResults |-> OpResult(ArgValues(as), i)],
              !.results = [i \in 1..NumResults |-> Concrete(OpResult(ArgValues(as), i))],
              !.result_writes = [i \in 1..NumResults |-> @[i] + 1]]

\* results.AllocateAt<TensorHandle>(b) for every result slot.
AllocateResults(r) == [r EXCEPT !.results = [i \in 1..NumResults |-> Unresolved]]

\* KernelErrorHandler::ReportError: the error goes to the caller.
ReportError(r, msg) == [r EXCEPT !.reported = msg, !.pc = "done"]

\* The snapshot of the inputs the kernel was called with.
Called(r, kernel, name, attrs, c, h, as, cin) ==
    [r EXCEPT !.kernel = kernel, !.op_name = name, !.op_attr_array = attrs,
              !.in_chain = c, !.at_dispatch = [h |-> h, as |-> as, cin |-> cin]]

(***************************************************************************)
(* ExecuteOp                                                               *)
(***************************************************************************)
ExecuteOpBody(r, h, as) ==
    IF ~core_rt THEN ReportError(r, "no CoreRuntime available")
    ELSE IF ~MakeOpOk(r.op_name, h.v) THEN ReportError(r, "MakeOp failed")
    ELSE ExecuteOpImpl([AllocateResults(r) EXCEPT !.pc = "done"], as, FALSE)

(***************************************************************************)
(* ExecuteCoreRuntimeOp                                                    *)
(***************************************************************************)
ExecuteCoreRuntimeOpBody(r, as) ==
    IF ~core_rt THEN ReportError(r, "no CoreRuntime available")
    ELSE ExecuteOpImpl([AllocateResults(r) EXCEPT !.pc = "done"], as, FALSE)

(***************************************************************************)
(* ExecuteOpSeq                                                            *)
(***************************************************************************)
\* Mutant: the loop over the arguments is missing.
AsyncArgsHandlerOnly(h, as) == IF ~IsConcrete(h) THEN {0} ELSE {}

\* Mutant: IsAvailable is tested where IsConcrete is.
AsyncArgsUnavailable(h, as) ==
    (IF ~IsAvailable(h) THEN {0} ELSE {}) \cup {i \in 1..NumArgs : ~IsAvailable(as[i])}

\* The handler and the arguments that are not concrete.  0 is the handler.
AsyncArgs(h, as) ==
    (IF ~IsConcrete(h) THEN {0} ELSE {}) \cup {i \in 1..NumArgs : ~IsConcrete(as[i])}

InputOf(k, h, as) == IF k = 0 THEN h ELSE as[k]

\* HostContext::RunWhenReady runs the callee once every value is available.
AllAvailable(ws, h, as) == \A k \in ws : IsAvailable(InputOf(k, h, as))

\* Mutant: the loop over the results is missing.
propgate_errorChainOnly(r, e) ==
    [r EXCEPT !.out_op_chain = ErrorState(e),
              !.out_writes = @ + 1]

\* The lambda propgate_error.
propgate_error(r, e) ==
    [r EXCEPT !.out_op_chain = ErrorState(e),
              !.out_writes = @ + 1,
              !.results = [i \in 1..NumResults |-> ErrorState(e)],
              !.result_writes = [i \in 1..NumResults |-> @[i] + 1]]

\* The index of the first argument in the error state, 0 when there is none.
FirstErrorArg(as) ==
    IF \E i \in 1..NumArgs : IsError(as[i])
    THEN CHOOSE i \in 1..NumArgs :
            IsError(as[i]) /\ \A j \in 1..(i - 1) : ~IsError(as[j])
    ELSE 0

\* The waiter on the operation's completion marker: sets out_op_chain.
ChainWaiter(r, s) ==
    [r EXCEPT !.out_op_chain = IF IsError(s) THEN ErrorState(s.e) ELSE Concrete(0),
              !.out_writes = @ + 1,
              !.and_then = FALSE]

\* Mutant: out_op_chain is emplaced right after the invocation.
AndThenEager(r) == ChainWaiter(r, Concrete(0))

\* op_chain_av->AndThen(...): runs the waiter now if the marker is available.
AndThen(r) ==
    IF IsAvailable(r.op_chain) THEN ChainWaiter(r, r.op_chain)
    ELSE [r EXCEPT !.and_then = TRUE]

\* Mutant: the loop testing the arguments for errors is missing.
ContinuationExecuteNoArgLoop(r, h, as, cin) ==
    IF ~MakeOpOk(r.op_name, h.v) THEN propgate_error(r, LookupErr)
    ELSE LET r1 == ExecuteOpImpl(r, as, TRUE)
         IN  IF Aborted(r1) THEN r1 ELSE AndThen(r1)

\* The work of the continuation after the handler and chain error checks.
ContinuationExecute(r, h, as, cin) ==
    IF ~MakeOpOk(r.op_name, h.v) THEN propgate_error(r, LookupErr)
    ELSE IF FirstErrorArg(as) # 0 THEN propgate_error(r, as[FirstErrorArg(as)].e)
    ELSE LET r1 == ExecuteOpImpl(r, as, TRUE)
         IN  IF Aborted(r1) THEN r1 ELSE AndThen(r1)

\* Mutant: the error checks propagate the error but do not return.
ContinuationNoReturn(r, h, as, cin) ==
    LET r1 == [r EXCEPT !.fired = @ + 1, !.pc = "done",
                        !.at_decide = [h |-> h, as |-> as, cin |-> cin]]
        r2 == IF IsError(h) THEN propgate_error(r1, h.e) ELSE r1
        r3 == IF IsError(cin) THEN propgate_error(r2, cin.e) ELSE r2
    IN  ContinuationExecute(r3, h, as, cin)

\* The continuation given to RunWhenReady.
Continuation(r, h, as, cin) ==
    LET r1 == [r EXCEPT !.fired = @ + 1, !.pc = "done",
                        !.at_decide = [h |-> h, as |-> as, cin |-> cin]]
    IN  IF IsError(h) THEN propgate_error(r1, h.e)
        ELSE IF IsError(cin) THEN propgate_error(r1, cin.e)
        ELSE ContinuationExecute(r1, h, as, cin)

\* Mutant: a failed MakeOp is propagated into the outputs, as the
\* continuation does.
SeqImmediatePropagate(r, h, as, cin) ==
    IF ~MakeOpOk(r.op_name, h.v)
    THEN propgate_error([r EXCEPT !.out_op_chain = Unresolved, !.pc = "done"], LookupErr)
    ELSE LET r1 == ExecuteOpImpl([r EXCEPT !.pc = "done"], as, TRUE)
         IN  IF Aborted(r1) THEN r1
             ELSE [r1 EXCEPT !.out_op_chain = r1.op_chain,
                             !.out_alias = TRUE,
                             !.out_writes = @ + 1]

\* The branch taken when async_args is empty.
SeqImmediate(r, h, as, cin) ==
    IF ~MakeOpOk(r.op_name, h.v) THEN ReportError(r, "MakeOp failed")
    ELSE LET r1 == ExecuteOpImpl([r EXCEPT !.pc = "done"], as, TRUE)
         IN  IF Aborted(r1) THEN r1
             ELSE [r1 EXCEPT !.out_op_chain = r1.op_chain,
                             !.out_alias = TRUE,
                             !.out_writes = @ + 1]

\* The branch taken otherwise: allocate out_op_chain and call RunWhenReady.
SeqDeferred(r, aa, h, as, cin) ==
    LET r1 == [r EXCEPT !.out_op_chain = Unresolved, !.async_args = aa,
                        !.pc = "waiting"]
    IN  IF AllAvailable(aa, h, as)
        THEN [Continuation(r1, h, as, cin) EXCEPT !.fired_in_call = TRUE]
        ELSE r1

\* Mutant: an in_op_chain that is not concrete forces the deferred branch.
ExecuteOpSeqBodyWaitsChain(r, h, as, cin) ==
    IF ~core_rt THEN ReportError(r, "no CoreRuntime available")
    ELSE LET r1 == [AllocateResults(r) EXCEPT
                       !.at_decide = IF AsyncArgs(h, as) = {} /\ IsConcrete(cin)
                                     THEN [h |-> h, as |-> as, cin |-> cin] ELSE @]
             aa == AsyncArgs(h, as)
         IN  IF aa = {} /\ IsConcrete(cin)
             THEN SeqImmediate([r1 EXCEPT !.branch = "immediate"], h, as, cin)
             ELSE SeqDeferred([r1 EXCEPT !.branch = "deferred"], aa, h, as, cin)

ExecuteOpSeqBody(r, h, as, cin) ==
    IF ~core_rt THEN ReportError(r, "no CoreRuntime available")
    ELSE LET r1 == [AllocateResults(r) EXCEPT
                       !.at_decide = IF AsyncArgs(h, as) = {}
                                     THEN [h |-> h, as |-> as, cin |-> cin] ELSE @]
             aa == AsyncArgs(h, as)
         IN  IF aa = {}
             THEN SeqImmediate([r1 EXCEPT !.branch = "immediate"], h, as, cin)
             ELSE SeqDeferred([r1 EXCEPT !.branch = "deferred"], aa, h, as, cin)

(***************************************************************************)
(* Wiring of the two dispatches.                                           *)
(***************************************************************************)
\* The state of the chain dispatch d takes as in_op_chain: the external
\* chain A, or B, the out_op_chain of D1.
InChainState(D, d, ca) ==
    IF D[d].in_chain = "B" THEN D[1].out_op_chain ELSE ca

\* The chains D may be given: A, and for D2 also B once D1 has produced it.
InChains(d) ==
    {"A"} \cup (IF d = 2 /\ disp[1].out_op_chain.st # "Unconstructed"
                THEN {"B"} ELSE {})

\* No dispatch has aborted the process.
Alive == \A d \in Disp : ~Aborted(disp[d])

CanCall(d) == Alive /\ disp[d].pc = "init" /\ (d = 2 => disp[1].pc # "init")

\* A strict kernel runs only with every argument concrete.
Strict == IsConcrete(op_handler) /\ \A i \in 1..NumArgs : IsConcrete(args[i])

\* Resolving an input runs, in registration order, the continuations whose
\* readiness set has become available.
FireOne(D, d, h, as, ca) ==
    IF /\ D[d].pc = "waiting" /\ AllAvailable(D[d].async_args, h, as)
       /\ \A x \in Disp : ~Aborted(D[x])
    THEN [D EXCEPT ![d] = Continuation(D[d], h, as, InChainState(D, d, ca))]
    ELSE D

FireReady(D, h, as, ca) == FireOne(FireOne(D, 1, h, as, ca), 2, h, as, ca)

(***************************************************************************)
(* Actions                                                                 *)
(***************************************************************************)
ExecuteOp(d) ==
    /\ CanCall(d) /\ Strict
    /\ \E name \in OpNames :
         disp' = [disp EXCEPT ![d] =
            ExecuteOpBody(Called(disp[d], "ExecuteOp", name, op_attr_array, "none",
                                 op_handler, args, Unconstructed),
                          op_handler, args)]
    /\ UNCHANGED <<core_rt, op_attr_array, unreachable, op_handler, args, in_op_chain, th, verifier>>

ExecuteCoreRuntimeOp(d) ==
    /\ CanCall(d) /\ \A i \in 1..NumArgs : IsConcrete(args[i])
    /\ disp' = [disp EXCEPT ![d] =
            ExecuteCoreRuntimeOpBody(
                Called(disp[d], "ExecuteCoreRuntimeOp", "composite", op_attr_array, "none",
                       op_handler, args, Unconstructed), args)]
    /\ UNCHANGED <<core_rt, op_attr_array, unreachable, op_handler, args, in_op_chain, th, verifier>>

ExecuteOpSeq(d) ==
    /\ CanCall(d)
    /\ \E name \in OpNames, c \in InChains(d) :
         LET r == [disp[d] EXCEPT !.in_chain = c]
             cin == InChainState([disp EXCEPT ![d] = r], d, in_op_chain)
         IN  disp' = [disp EXCEPT ![d] =
                ExecuteOpSeqBody(Called(disp[d], "ExecuteOpSeq", name, op_attr_array, c,
                                        op_handler, args, cin),
                                 op_handler, args, cin)]
    /\ UNCHANGED <<core_rt, op_attr_array, unreachable, op_handler, args, in_op_chain, th, verifier>>

HandlerOutcomes == {Concrete(v) : v \in HandlerVals} \cup {ErrorState(Err("op_handler", 0))}
ArgOutcomes(i) == {Concrete(ArgVal(i)), ErrorState(Err("arg", i))}
ChainOutcomes == {Concrete(0), ErrorState(Err("in_op_chain", 0))}

ResolveHandler ==
    /\ Alive /\ op_handler = Unresolved
    /\ \E s \in HandlerOutcomes :
         /\ op_handler' = s
         /\ disp' = FireReady(disp, s, args, in_op_chain)
    /\ UNCHANGED <<core_rt, op_attr_array, unreachable, args, in_op_chain, th, verifier>>

ResolveArg(i) ==
    /\ Alive /\ args[i] = Unresolved
    /\ \E s \in ArgOutcomes(i) :
         /\ args' = [args EXCEPT ![i] = s]
         /\ disp' = FireReady(disp, op_handler, args', in_op_chain)
    /\ UNCHANGED <<core_rt, op_attr_array, unreachable, op_handler, in_op_chain, th, verifier>>

ResolveInChain ==
    /\ Alive /\ in_op_chain = Unresolved
    /\ \E s \in ChainOutcomes : in_op_chain' = s
    /\ UNCHANGED <<core_rt, op_attr_array, unreachable, op_handler, args, disp, th, verifier>>

\* What the operation may resolve its completion marker to: success, its own
\* error, or the error of the chain it was given.
MarkerOutcomes(d) ==
    {Concrete(0), ErrorState(Err("op", d))}
        \cup (IF IsError(InChainState(disp, d, in_op_chain))
              THEN {InChainState(disp, d, in_op_chain)} ELSE {})

\* The marker resolves; out_op_chain follows it when it is the same value
\* (immediate branch) and through the waiter otherwise.
MarkerResolved(r, s) ==
    LET r1 == [r EXCEPT !.op_chain = s]
    IN  IF r.out_alias THEN [r1 EXCEPT !.out_op_chain = s]
        ELSE IF r.and_then THEN ChainWaiter(r1, s)
        ELSE r1

OpCompletes(d) ==
    /\ Alive /\ disp[d].op_chain = Unresolved
    /\ \E s \in MarkerOutcomes(d) :
         disp' = [disp EXCEPT ![d] = MarkerResolved(disp[d], s)]
    /\ UNCHANGED <<core_rt, op_attr_array, unreachable, op_handler, args, in_op_chain, th, verifier>>

Next ==
    \/ \E d \in Disp : ExecuteOp(d)
    \/ \E d \in Disp : ExecuteCoreRuntimeOp(d)
    \/ \E d \in Disp : ExecuteOpSeq(d)
    \/ ResolveHandler
    \/ \E i \in 1..NumArgs : ResolveArg(i)
    \/ ResolveInChain
    \/ \E d \in Disp : OpCompletes(d)

Spec == Init /\ [][Next]_vars

\* The same kernels given a record with a tag the attribute loop has no
\* case for, in either build.
InitAttrs ==
    /\ core_rt \in BOOLEAN
    /\ op_attr_array \in BadAttrRecords
    /\ unreachable \in UnreachableOutcomes
    /\ op_handler = Unresolved
    /\ args = [i \in 1..NumArgs |-> Unresolved]
    /\ in_op_chain = Unresolved
    /\ disp = [d \in Disp |-> InitDisp]
    /\ th = [h \in Handles |-> InitHandle]
    /\ verifier = NoVerifier

SpecAttrs == InitAttrs /\ [][Next]_vars

(***************************************************************************)
(* TensorHandleToShape on NumHandles TensorHandles, no dispatch running.   *)
(***************************************************************************)
TensorHandleToShape(h) ==
    /\ th[h].pc = "init"
    /\ th' = [th EXCEPT ![h] = TensorHandleToShapeBody(th[h])]
    /\ UNCHANGED <<core_rt, op_attr_array, unreachable, op_handler, args, in_op_chain, disp, verifier>>

ResolveMetadata(h) ==
    /\ th[h].metadata = Unresolved
    /\ \E s \in MetadataOutcomes :
         th' = [th EXCEPT ![h] = MetadataResolved(th[h], s)]
    /\ UNCHANGED <<core_rt, op_attr_array, unreachable, op_handler, args, in_op_chain, disp, verifier>>

InitShape ==
    /\ core_rt = TRUE
    /\ op_attr_array = << >>
    /\ unreachable = "abort"
    /\ op_handler = Unresolved
    /\ args = [i \in 1..NumArgs |-> Unresolved]
    /\ in_op_chain = Unresolved
    /\ disp = [d \in Disp |-> InitDisp]
    /\ th = [h \in Handles |-> InitHandle]
    /\ verifier = NoVerifier

NextShape ==
    \/ \E h \in Handles : TensorHandleToShape(h)
    \/ \E h \in Handles : ResolveMetadata(h)

SpecShape == InitShape /\ [][NextShape]_vars

(***************************************************************************)
(* The verifier run on one EnumerateIteratorOp of a module.                *)
(***************************************************************************)
Verify ==
    /\ ~verifier.verified
    /\ verifier' = [verifier EXCEPT
                      !.verified = TRUE,
                      !.result = verify(verifier.op, verifier.module, verifier.ftype)]
    /\ UNCHANGED <<core_rt, op_attr_array, unreachable, op_handler, args, in_op_chain, disp, th>>

InitVerify ==
    /\ core_rt = TRUE
    /\ op_attr_array = << >>
    /\ unreachable = "abort"
    /\ op_handler = Unresolved
    /\ args = [i \in 1..NumArgs |-> Unresolved]
    /\ in_op_chain = Unresolved
    /\ disp = [d \in Disp |-> InitDisp]
    /\ th = [h \in Handles |-> InitHandle]
    /\ \E module \in {{}, {"f"}}, ftype \in FunctionTypes, op \in EnumerateIteratorOps :
         verifier = [module |-> module, ftype |-> ftype, op |-> op,
                     verified |-> FALSE, result |-> Success]

NextVerify == Verify

SpecVerify == InitVerify /\ [][NextVerify]_vars

(***************************************************************************)
(* Properties                                                              *)
(***************************************************************************)
IsSeq(d) == disp[d].kernel = "ExecuteOpSeq"
Results(d) == disp[d].results
ResultSlots == 1..NumResults
Inputs == 0..NumArgs

\* The errors among the handler, the arguments and the incoming chain in a
\* snapshot of the inputs.
InputErrors(snap) ==
    {InputOf(k, snap.h, snap.as).e : k \in {j \in Inputs : IsError(InputOf(j, snap.h, snap.as))}}
        \cup (IF IsError(snap.cin) THEN {snap.cin.e} ELSE {})

\* The dispatch has examined its inputs: on the immediate branch during the
\* call, on the deferred branch when the continuation ran.
Decided(d) == IsSeq(d) /\ disp[d].at_decide.h.st # "Unconstructed"

\* Every result and the outgoing chain carry the error e.
AllCarry(d, e) ==
    /\ disp[d].out_op_chain = ErrorState(e)
    /\ \A i \in ResultSlots : Results(d)[i] = ErrorState(e)

\* The inputs that were unresolved, and those that were not concrete, when
\* the kernel was called.
PendingAtDispatch(d) ==
    {k \in Inputs : InputOf(k, disp[d].at_dispatch.h, disp[d].at_dispatch.as).st = "Unresolved"}
NotConcreteAtDispatch(d) ==
    {k \in Inputs : ~IsConcrete(InputOf(k, disp[d].at_dispatch.h, disp[d].at_dispatch.as))}

\* C1: in ExecuteOpSeq, when the handler, an argument or the incoming chain
\* is in the error state as the dispatch examines its inputs, the operation
\* is never invoked and every result and the outgoing chain carry that error.
C1_ErrorShortCircuit ==
    \A d \in Disp :
        (Decided(d) /\ InputErrors(disp[d].at_decide) # {}) =>
            /\ disp[d].invoked = 0
            /\ \E e \in InputErrors(disp[d].at_decide) : AllCarry(d, e)

\* C2: with D1 (A -> B) and D2 (B -> C) sequenced, whenever C is ready
\* (concrete: everything up to it has happened) the completion marker of
\* every operation D1 and D2 invoked has resolved.
C2_TokenOrdering ==
    (IsSeq(1) /\ IsSeq(2) /\ disp[2].in_chain = "B"
        /\ IsConcrete(disp[2].out_op_chain)) =>
            \A d \in Disp : disp[d].invoked > 0 => IsAvailable(disp[d].op_chain)

\* C3: the outgoing chain of a sequenced dispatch is concrete only when the
\* operation was invoked and its completion marker is concrete; once the
\* operation was invoked the outgoing chain is ready only with the marker
\* resolved, and a marker in error puts that error into the outgoing chain.
C3_OutAfterMarker ==
    \A d \in Disp : IsSeq(d) =>
        /\ IsConcrete(disp[d].out_op_chain) =>
              disp[d].invoked = 1 /\ IsConcrete(disp[d].op_chain)
        /\ (disp[d].invoked > 0 /\ IsAvailable(disp[d].out_op_chain)) =>
              /\ IsAvailable(disp[d].op_chain)
              /\ disp[d].out_op_chain.st = disp[d].op_chain.st
        /\ IsError(disp[d].op_chain) =>
              disp[d].out_op_chain = ErrorState(disp[d].op_chain.e)

C3_Witness ==
    /\ IsSeq(2) /\ disp[2].branch = "immediate" /\ IsConcrete(disp[2].out_op_chain)
    /\ IsSeq(1) /\ disp[1].branch = "deferred" /\ disp[1].invoked = 1
    /\ disp[1].op_chain = ErrorState(Err("op", 1))
    /\ disp[1].out_op_chain = ErrorState(Err("op", 1))

\* C4: ExecuteOpSeq invokes the operation only when in_op_chain is ready.
C4_InvokedOnlyWhenChainReady ==
    \A d \in Disp :
        (IsSeq(d) /\ disp[d].invoked > 0) => IsAvailable(disp[d].at_decide.cin)

\* Both dispatches are ExecuteOpSeq calls of the same operation on the same
\* handler, arguments, attributes and incoming chain, and nothing is pending.
SameCallFinished ==
    /\ IsSeq(1) /\ IsSeq(2) /\ core_rt
    /\ disp[1].in_chain = "A" /\ disp[2].in_chain = "A"
    /\ disp[1].op_name = disp[2].op_name
    /\ disp[1].pc = "done" /\ disp[2].pc = "done"
    /\ IsAvailable(in_op_chain)
    /\ disp[1].op_chain = disp[2].op_chain
    /\ disp[1].op_chain.st # "Unresolved"

\* C5: an immediate and a deferred ExecuteOpSeq of the same call end with
\* identical result states and identical outgoing chain state.
C5_ImmediateDeferredEquivalent ==
    (SameCallFinished /\ disp[1].branch # disp[2].branch) =>
        /\ disp[1].results = disp[2].results
        /\ disp[1].out_op_chain = disp[2].out_op_chain

\* C6: on the deferred branch every result and the outgoing chain is
\* allocated when the kernel returns, and none is resolved while an input
\* that was unresolved at the call is still unresolved.
C6_PlaceholdersUntilReady ==
    \A d \in Disp : (IsSeq(d) /\ disp[d].branch = "deferred") =>
        /\ disp[d].out_op_chain.st # "Unconstructed"
        /\ \A i \in ResultSlots : Results(d)[i].st # "Unconstructed"
        /\ (\E k \in PendingAtDispatch(d) : ~IsAvailable(InputOf(k, op_handler, args))) =>
              /\ disp[d].out_op_chain = Unresolved
              /\ \A i \in ResultSlots : Results(d)[i] = Unresolved

C6_Witness ==
    \E d \in Disp :
        /\ IsSeq(d) /\ disp[d].branch = "deferred" /\ disp[d].pc = "waiting"
        /\ PendingAtDispatch(d) = {0, 1}
        /\ IsAvailable(op_handler) /\ ~IsAvailable(args[1])
        /\ disp[d].out_op_chain = Unresolved
        /\ \A i \in ResultSlots : Results(d)[i] = Unresolved

\* C7: every result and the outgoing chain of a dispatch is written at most
\* once, and a result or outgoing chain in a terminal state never changes.
C7_SingleTransition ==
    [][\A d \in Disp :
          /\ disp'[d].out_writes <= 1
          /\ IsAvailable(disp[d].out_op_chain) =>
                disp'[d].out_op_chain = disp[d].out_op_chain
          /\ \A i \in ResultSlots :
                /\ disp'[d].result_writes[i] <= 1
                /\ IsAvailable(Results(d)[i]) => disp'[d].results[i] = Results(d)[i]]_vars

C7_Witness ==
    /\ disp[2].kernel = "ExecuteOp" /\ disp[2].result_writes[1] = 1
    /\ IsSeq(1) /\ disp[1].branch = "deferred" /\ disp[1].fired = 1
    /\ disp[1].out_writes = 1 /\ IsError(disp[1].out_op_chain)
    /\ \A i \in ResultSlots : disp[1].result_writes[i] = 1 /\ IsError(disp[1].results[i])

\* C8: the deferred continuation runs at most once and only with every input
\* that was not concrete at the call resolved; it has run as soon as they are
\* all resolved, during the call itself when they already were; the
\* operation is invoked at most once.
C8_ContinuationFiring ==
    \A d \in Disp : (IsSeq(d) /\ core_rt) =>
        /\ disp[d].fired <= 1 /\ disp[d].invoked <= 1
        /\ disp[d].fired = 1 => AllAvailable(NotConcreteAtDispatch(d), op_handler, args)
        /\ NotConcreteAtDispatch(d) # {} =>
              /\ disp[d].branch = "deferred"
              /\ AllAvailable(NotConcreteAtDispatch(d), op_handler, args) => disp[d].fired = 1
              /\ disp[d].fired_in_call <=>
                    AllAvailable(NotConcreteAtDispatch(d), disp[d].at_dispatch.h,
                                 disp[d].at_dispatch.as)

C8_Witness ==
    \E d \in Disp :
        /\ IsSeq(d) /\ disp[d].fired_in_call /\ disp[d].fired = 1
        /\ IsConcrete(disp[d].at_dispatch.h)
        /\ IsError(disp[d].at_dispatch.as[1])
        /\ disp[d].invoked = 0

\* C9: ExecuteOp with a successful lookup invokes the operation once without
\* a chain and emplaces in every result slot, once, the value the operation
\* produced for that slot (3 + 4 = 7 in slot 1); there is no outgoing chain.
C9_ExecuteOpResults ==
    \A d \in Disp :
        (disp[d].kernel = "ExecuteOp" /\ core_rt
            /\ MakeOpOk(disp[d].op_name, disp[d].at_dispatch.h.v)) =>
            /\ disp[d].pc = "done" /\ disp[d].reported = ""
            /\ disp[d].invoked = 1 /\ ~disp[d].token_passed
            /\ disp[d].th_args = [i \in 1..NumArgs |-> args[i].v]
            /\ Len(disp[d].result_ths) = NumResults
            /\ \A i \in ResultSlots :
                  /\ Results(d)[i] = Concrete(disp[d].result_ths[i])
                  /\ disp[d].result_writes[i] = 1
            /\ (disp[d].th_args = <<3, 4>>) => Results(d)[1] = Concrete(7)
            /\ disp[d].out_op_chain = Unconstructed /\ disp[d].out_writes = 0
            /\ disp[d].op_chain = Unconstructed

C9_Witness ==
    \E d \in Disp :
        /\ disp[d].kernel = "ExecuteOp" /\ disp[d].invoked = 1
        /\ disp[d].th_args = <<3, 4>> /\ Results(d)[1] = Concrete(7)
        /\ disp[d].out_op_chain = Unconstructed

\* C10: on the paths with every input concrete at the call (ExecuteOp, and
\* ExecuteOpSeq with an empty async_args), a failed MakeOp is reported to
\* the caller and nothing else is done: no invocation, no attributes
\* materialized, no result and no outgoing chain resolved or set to error.
C10_LookupFailureNoWork ==
    \A d \in Disp :
        (disp[d].kernel \in {"ExecuteOp", "ExecuteOpSeq"} /\ core_rt
            /\ NotConcreteAtDispatch(d) = {}
            /\ ~MakeOpOk(disp[d].op_name, disp[d].at_dispatch.h.v)) =>
            /\ disp[d].reported # "" /\ disp[d].pc = "done"
            /\ disp[d].invoked = 0 /\ ~disp[d].attrs_done
            /\ disp[d].op_attrs = << >>
            /\ disp[d].out_writes = 0 /\ ~IsAvailable(disp[d].out_op_chain)
            /\ \A i \in ResultSlots :
                  disp[d].result_writes[i] = 0 /\ ~IsAvailable(Results(d)[i])

C10_Witness ==
    /\ disp[1].kernel = "ExecuteOp" /\ disp[1].reported = "MakeOp failed"
    /\ IsSeq(2) /\ disp[2].branch = "immediate" /\ disp[2].reported = "MakeOp failed"
    /\ \A i \in ResultSlots : disp[2].results[i] = Unresolved

\* The inputs as the dispatch examined them: ExecuteOp runs with them
\* concrete, ExecuteOpSeq examines them on its branch or in its continuation.
Examined(d) ==
    IF disp[d].kernel = "ExecuteOp" THEN disp[d].at_dispatch ELSE disp[d].at_decide

\* The dispatch called MakeOp: ExecuteOp and the immediate branch always do,
\* the continuation does after its handler and chain error checks.
MakeOpReached(d) ==
    /\ core_rt
    /\ \/ disp[d].kernel = "ExecuteOp"
       \/ IsSeq(d) /\ disp[d].branch = "immediate"
       \/ /\ IsSeq(d) /\ disp[d].branch = "deferred" /\ disp[d].fired > 0
          /\ ~IsError(disp[d].at_decide.h) /\ ~IsError(disp[d].at_decide.cin)

LookupFailed(d) ==
    MakeOpReached(d) /\ ~MakeOpOk(disp[d].op_name, Examined(d).h.v)

NoOutputWritten(d) ==
    /\ disp[d].out_writes = 0 /\ ~IsAvailable(disp[d].out_op_chain)
    /\ \A i \in ResultSlots : disp[d].result_writes[i] = 0 /\ ~IsAvailable(Results(d)[i])

\* C11: a failed MakeOp is reported to the caller and sets no result and no
\* outgoing chain, on every path of ExecuteOp and ExecuteOpSeq, the deferred
\* continuation included.
C11_LookupFailureReported ==
    \A d \in Disp : LookupFailed(d) => (disp[d].reported # "" /\ NoOutputWritten(d))

\* A failure the dispatcher meets: no runtime, a failed MakeOp, or an input
\* (handler, argument, incoming chain) in error when the inputs are examined.
FailureDetected(d) ==
    \/ disp[d].kernel # "none" /\ ~core_rt
    \/ LookupFailed(d)
    \/ Decided(d) /\ InputErrors(disp[d].at_decide) # {}

\* One error is set on every result and on the outgoing chain.
Propagated(d) ==
    IsError(disp[d].out_op_chain) /\ AllCarry(d, disp[d].out_op_chain.e)

\* C12: for every failure exactly one of: the error is reported to the
\* caller, or it is set on every result and on the outgoing chain.
C12_ReportXorPropagate ==
    \A d \in Disp : FailureDetected(d) =>
        ((disp[d].reported # "") # Propagated(d))

\* C14: when the continuation runs with the handler, the incoming chain or
\* an argument in error, one error is written once to the outgoing chain and
\* to every result, and the operation is not invoked.
C14_ContinuationPropagatesOneError ==
    \A d \in Disp :
        (IsSeq(d) /\ disp[d].branch = "deferred" /\ disp[d].fired > 0
            /\ InputErrors(disp[d].at_decide) # {}) =>
            /\ disp[d].invoked = 0 /\ disp[d].op_chain = Unconstructed
            /\ disp[d].pc = "done"
            /\ IsError(disp[d].out_op_chain)
            /\ AllCarry(d, disp[d].out_op_chain.e)
            /\ disp[d].out_writes = 1
            /\ \A i \in ResultSlots : disp[d].result_writes[i] = 1

C14_Witness ==
    \E d \in Disp :
        /\ IsSeq(d) /\ disp[d].branch = "deferred" /\ disp[d].fired = 1
        /\ IsConcrete(disp[d].at_decide.h)
        /\ IsError(disp[d].at_decide.as[2]) /\ IsError(disp[d].at_decide.cin)
        /\ AllCarry(d, Err("in_op_chain", 0))

\* C15: the continuation calls MakeOp only after the handler, the chain and
\* every argument were found free of error: with an argument in error (and
\* handler and chain not) the outputs carry that argument's error.
C15_ArgErrorBeforeLookup ==
    \A d \in Disp :
        (IsSeq(d) /\ disp[d].branch = "deferred" /\ disp[d].fired > 0
            /\ ~IsError(disp[d].at_decide.h) /\ ~IsError(disp[d].at_decide.cin)
            /\ FirstErrorArg(disp[d].at_decide.as) # 0) =>
            AllCarry(d, Err("arg", FirstErrorArg(disp[d].at_decide.as)))

\* C16: the incoming chain is not waited for: the branch is the immediate
\* one exactly when the handler and every argument are concrete at the call,
\* async_args holds handler and arguments only, and the continuation has run
\* exactly when those are all available, whatever the state of the chain.
C16_ChainNotInReadinessSet ==
    \A d \in Disp : (IsSeq(d) /\ core_rt) =>
        /\ disp[d].async_args = NotConcreteAtDispatch(d)
        /\ disp[d].async_args \subseteq Inputs
        /\ (disp[d].branch = "immediate") <=> (NotConcreteAtDispatch(d) = {})
        /\ disp[d].branch = "deferred" =>
              ((disp[d].fired = 1) <=>
                    AllAvailable(NotConcreteAtDispatch(d), op_handler, args))

C16_Witness ==
    /\ IsSeq(1) /\ disp[1].branch = "deferred" /\ disp[1].fired = 1
    /\ disp[1].at_decide.cin = Unresolved /\ disp[1].invoked = 1
    /\ IsSeq(2) /\ disp[2].branch = "immediate" /\ disp[2].in_chain = "A"
    /\ disp[2].at_dispatch.cin = Unresolved /\ disp[2].invoked = 1

\* Nothing the dispatch waits for is pending any more.
Quiescent(d) ==
    /\ IsSeq(d) /\ core_rt /\ disp[d].pc = "done"
    /\ IsAvailable(op_handler) /\ \A i \in 1..NumArgs : IsAvailable(args[i])
    /\ IsAvailable(InChainState(disp, d, in_op_chain))
    /\ disp[d].op_chain.st # "Unresolved"

\* C17: once every input of a sequenced dispatch has resolved and the
\* operation, if invoked, has resolved its completion marker, every result
\* and the outgoing chain is in a terminal state, failed lookups included.
C17_OutputsTerminal ==
    \A d \in Disp : Quiescent(d) =>
        /\ IsAvailable(disp[d].out_op_chain)
        /\ \A i \in ResultSlots : IsAvailable(Results(d)[i])

\* The record of dispatch d has a tag that reaches a default case.
HasUnknownTag(d) ==
    \E i \in 1..Len(disp[d].op_attr_array) :
        SetAttr(disp[d].op_attr_array[i]).setter = "unreachable"

\* Dispatch d has run the attribute loop, to its end or into llvm_unreachable.
Materializing(d) == disp[d].attrs_done \/ Aborted(disp[d])

\* C13: when the record has an unrecognized tag, materialization fails
\* before the operation is invoked, the caller receives an error and no
\* result is ever allocated for the dispatch.
C13_UnknownTagReported ==
    \A d \in Disp : (HasUnknownTag(d) /\ Materializing(d)) =>
        /\ disp[d].invoked = 0
        /\ disp[d].reported # ""
        /\ \A i \in ResultSlots : Results(d)[i] = Unconstructed

\* The entry the loop stores for each tag it has a case for.
SetterTable ==
    { <<Tag("data", "bool"), "Set", "bool">>,
      <<Tag("data", "i32"), "Set", "i32">>,
      <<Tag("data", "i64"), "Set", "i64">>,
      <<Tag("data", "f32"), "Set", "f32">>,
      <<Tag("data", "f64"), "Set", "f64">>,
      <<Tag("data", "string"), "SetString", "string">>,
      <<Tag("array", "i32"), "SetRaw", "i32">>,
      <<Tag("array", "f32"), "SetRaw", "f32">>,
      <<Tag("dense", ""), "Set", "dense">>,
      <<Tag("aggregate", ""), "Set", "aggregate">>,
      <<Tag("type", ""), "Set", "type">>,
      <<Tag("shape", ""), "Set", "shape">> }

\* C18: when the operation is invoked, op_attrs holds one entry per
\* attribute of the record, in record order, under the attribute's key and
\* stored by the setter of its tag (SetRaw with the element type for arrays,
\* SetString for strings, Set otherwise).
C18_AttributesMaterialized ==
    \A d \in Disp : disp[d].invoked > 0 =>
        /\ disp[d].attrs_done
        /\ Len(disp[d].op_attrs) = Len(disp[d].op_attr_array)
        /\ \A i \in 1..Len(disp[d].op_attr_array) :
              /\ disp[d].op_attrs[i].key = disp[d].op_attr_array[i].key
              /\ <<disp[d].op_attr_array[i].tag, disp[d].op_attrs[i].setter,
                   disp[d].op_attrs[i].type>> \in SetterTable

C18_Witness ==
    \E d \in Disp :
        /\ disp[d].invoked = 1 /\ disp[d].op_attr_array = FullRecord
        /\ {disp[d].op_attr_array[i].tag : i \in 1..Len(FullRecord)}
              = {t[1] : t \in SetterTable}
        /\ disp[d].op_attrs[1] = [key |-> "k1", setter |-> "SetString", type |-> "string"]
        /\ disp[d].op_attrs[2] = [key |-> "k2", setter |-> "SetRaw", type |-> "i32"]

\* C19: in ExecuteOpSeq the attributes are materialized during the dispatch
\* call, before any input is waited on: a dispatch whose continuation is
\* pending, or has run, has its attribute set built.
C19_EagerMaterialization ==
    \A d \in Disp :
        (IsSeq(d) /\ disp[d].branch = "deferred" /\ disp[d].op_attr_array # << >>) =>
            (disp[d].attrs_done /\ disp[d].op_attrs # << >>)

\* C20: TensorHandleToShape resolves its result exactly once: emplaced with
\* the shape during the call when the metadata is available; otherwise an
\* indirect value that is unresolved while the metadata is, and is then
\* forwarded once, to the metadata future when it is in error and to an
\* available value holding the metadata's shape when it is not.
C20_ShapeResolvedOnce ==
    \A h \in Handles :
        /\ th[h].emplaced + th[h].forwarded <= 1
        /\ th[h].pc = "init" =>
              (th[h].tensorshape_result = Unconstructed
                 /\ th[h].emplaced + th[h].forwarded = 0)
        /\ (th[h].pc # "init" /\ IsConcrete(th[h].at_call)) =>
              /\ th[h].pc = "done" /\ ~th[h].indirect
              /\ th[h].emplaced = 1 /\ th[h].forwarded = 0
              /\ th[h].tensorshape_result = Concrete(ShapeOf(th[h].at_call.v))
        /\ (th[h].pc # "init" /\ ~IsConcrete(th[h].at_call)) =>
              /\ th[h].indirect /\ th[h].emplaced = 0
              /\ th[h].metadata = Unresolved =>
                    (th[h].tensorshape_result = Unresolved /\ th[h].forwarded = 0
                       /\ th[h].pc = "waiting")
              /\ IsError(th[h].metadata) =>
                    (th[h].tensorshape_result = th[h].metadata /\ th[h].forwarded = 1
                       /\ th[h].forwarded_to = "metadata" /\ th[h].pc = "done")
              /\ IsConcrete(th[h].metadata) =>
                    (th[h].tensorshape_result = Concrete(ShapeOf(th[h].metadata.v))
                       /\ th[h].forwarded = 1
                       /\ th[h].forwarded_to = "fresh" /\ th[h].pc = "done")

C20_Witness ==
    /\ th[1].at_call = Concrete(12) /\ th[1].tensorshape_result = Concrete(2)
    /\ th[2].at_call = Unresolved /\ th[2].tensorshape_result = ErrorState(Err("metadata", 0))
    /\ th[3].at_call = Unresolved /\ th[3].tensorshape_result = Concrete(1)
    /\ th[3].metadata = Concrete(21)

\* C21: whenever ExecuteOpSeq has invoked the operation, the handler and
\* every argument were Concrete when it read them with get(), on the
\* immediate branch and in the continuation, and th_args holds their values.
C21_GetOnlyOnConcrete ==
    \A d \in Disp : (IsSeq(d) /\ disp[d].invoked > 0) =>
        /\ IsConcrete(disp[d].at_decide.h) /\ disp[d].at_decide.h = op_handler
        /\ \A i \in 1..NumArgs :
              /\ IsConcrete(disp[d].at_decide.as[i])
              /\ disp[d].at_decide.as[i] = args[i]
              /\ disp[d].th_args[i] = ArgVal(i)

C21_Witness ==
    /\ IsSeq(1) /\ disp[1].branch = "deferred" /\ ~disp[1].fired_in_call
    /\ disp[1].at_dispatch.h = Unresolved
    /\ \A i \in 1..NumArgs : disp[1].at_dispatch.as[i] = Unresolved
    /\ disp[1].invoked = 1
    /\ IsSeq(2) /\ disp[2].branch = "immediate" /\ disp[2].invoked = 1

\* Both dispatches are ExecuteOpSeq calls of the same operation on the same
\* handler, arguments and incoming chain, issued at different moments; every
\* input has resolved, and the operation, where it was invoked, has resolved
\* its completion marker, to the same state if both invoked it.
SameInputsSettled ==
    /\ IsSeq(1) /\ IsSeq(2) /\ core_rt
    /\ disp[1].in_chain = "A" /\ disp[2].in_chain = "A"
    /\ disp[1].op_name = disp[2].op_name
    /\ disp[1].pc = "done" /\ disp[2].pc = "done"
    /\ IsAvailable(op_handler) /\ \A i \in 1..NumArgs : IsAvailable(args[i])
    /\ IsAvailable(in_op_chain)
    /\ \A d \in Disp : disp[d].op_chain.st # "Unresolved"
    /\ (disp[1].invoked > 0 /\ disp[2].invoked > 0) => disp[1].op_chain = disp[2].op_chain

\* C22: for the same final states of the handler, the arguments and the
\* incoming chain, whether the operation is invoked and the final states of
\* the results and of the outgoing chain do not depend on when the inputs
\* resolved relative to each other and to the call.
C22_TimingIndependent ==
    SameInputsSettled =>
        /\ (disp[1].invoked > 0) = (disp[2].invoked > 0)
        /\ disp[1].results = disp[2].results
        /\ disp[1].out_op_chain = disp[2].out_op_chain

\* The conditions of a well-formed EnumerateIteratorOp, for the op, module
\* and function type under verification.
FunctionExists == verifier.op.function \in verifier.module
ResultCount == Len(verifier.op.results)
ResultCountMatches == Len(verifier.ftype.results) = ResultCount
EnoughInputs == Len(verifier.ftype.inputs) > ResultCount

\* Element i (from 1) of a type list, by the name the diagnostic gives it.
TypeAt(name, i) ==
    IF name = "op results" THEN verifier.op.results[i]
    ELSE IF name = "function results" THEN verifier.ftype.results[i]
    ELSE verifier.ftype.inputs[Len(verifier.ftype.inputs) - ResultCount + i]

\* The pairs of type lists, in the order they are compared.
PairOrder ==
    << <<"op results", "function results">>,
       <<"op results", "final function inputs">>,
       <<"function results", "final function inputs">> >>

Mismatch(p, i) == TypeAt(PairOrder[p][1], i) # TypeAt(PairOrder[p][2], i)
TypesMatch == \A p \in 1..Len(PairOrder), i \in 1..ResultCount : ~Mismatch(p, i)

\* C23: verify succeeds iff the function exists, has as many results as the
\* op, has more inputs than that, and op results, function results and the
\* last inputs are pairwise equal at every index; otherwise the error is
\* that of the first violated check, the type error naming the first
\* mismatching pair and, within it, the first mismatching index.
C23_VerifyIffWellFormed ==
    verifier.verified =>
        /\ verifier.result.ok <=>
              (FunctionExists /\ ResultCountMatches /\ EnoughInputs /\ TypesMatch)
        /\ ~FunctionExists =>
              (verifier.result.error = "undefined function"
                 /\ verifier.result.a = verifier.op.function)
        /\ (FunctionExists /\ ~ResultCountMatches) =>
              /\ verifier.result.error = "number of function results"
              /\ verifier.result.found = <<Len(verifier.ftype.results), ResultCount>>
        /\ (FunctionExists /\ ResultCountMatches /\ ~EnoughInputs) =>
              /\ verifier.result.error = "number of function inputs"
              /\ verifier.result.found = <<Len(verifier.ftype.inputs), ResultCount>>
        /\ (FunctionExists /\ ResultCountMatches /\ EnoughInputs /\ ~TypesMatch) =>
              /\ verifier.result.error = "incompatible type"
              /\ \E p \in 1..Len(PairOrder) :
                    /\ <<verifier.result.a, verifier.result.b>> = PairOrder[p]
                    /\ verifier.result.idx \in 0..(ResultCount - 1)
                    /\ Mismatch(p, verifier.result.idx + 1)
                    /\ \A i \in 1..verifier.result.idx : ~Mismatch(p, i)
                    /\ \A q \in 1..(p - 1), i \in 1..ResultCount : ~Mismatch(q, i)

C23_Witness ==
    /\ verifier.verified /\ verifier.result.ok
    /\ verifier.op.results = <<"i32", "f32">>
    /\ verifier.ftype.inputs = <<"f32", "i32", "f32">>

====
